---- MODULE Spec2Model ----
(***************************************************************************)
(* Model of src/app.py: the three request handlers (/api/search_shorts,    *)
(* /api/quick, /api/quick_webhook) and the fetch-filter-rank pipeline of   *)
(* search_and_export, with the YouTube and Sheets services as the          *)
(* environment.  One action is one stretch of handler code from one        *)
(* upstream call (and its response) up to the next upstream call or the    *)
(* return.  Text is modelled as sequences of one-character strings.        *)
(* Parameters that never influence control flow or the collections (q,     *)
(* days, order, region) are left out.                                      *)
(***************************************************************************)
EXTENDS Integers, Sequences, FiniteSets

\* ---------------------------------------------------------------- bounds
MaxPages == 3       \* search calls one run may issue in the model
MaxOverlap == 1     \* how many already served ids an overlapping page repeats
MaxExtra == 1       \* how many items too many an oversized page holds
MaxShift == 1       \* upstream catalogs 0..MaxShift

\* ------------------------------------------------------ program constants
PageCap == 50           \* min(50, ...) in the search request
BatchCap == 50          \* range(0, len(video_ids), 50)
DefaultN == 50          \* n or 50
DefaultDuration == 180  \* duration or 180
MinResults == 1         \* Query(..., ge=1, le=200)
MaxResults == 200
MinDurationSec == 1     \* Query(..., ge=1, le=600)
MaxDurationSec == 600

\* An Optional[int]: <<>> is None, <<v>> is the integer v.
None == <<>>
Some(v) == <<v>>
IsNone(o) == o = <<>>

\* ------------------------------------------------------------------ text
Digits == {"0", "1", "2", "3", "4", "5", "6", "7", "8", "9"}

DigitVal(ch) ==
    CASE ch = "0" -> 0 [] ch = "1" -> 1 [] ch = "2" -> 2 [] ch = "3" -> 3
      [] ch = "4" -> 4 [] ch = "5" -> 5 [] ch = "6" -> 6 [] ch = "7" -> 7
      [] ch = "8" -> 8 [] ch = "9" -> 9

\* The value of a non-empty run of decimal digits.
RECURSIVE DigitsValue(_)
DigitsValue(num) ==
    IF num = <<>> THEN 0
    ELSE DigitsValue(SubSeq(num, 1, Len(num) - 1)) * 10 + DigitVal(num[Len(num)])

\* One step of the loop body of parse_iso_duration on character ch.
UnitSeconds(ch, value) ==
    CASE ch = "H" -> value * 3600
      [] ch = "M" -> value * 60
      [] ch = "S" -> value
      [] OTHER -> 0

RECURSIVE ScanDuration(_, _, _, _)
ScanDuration(d, k, num, total_seconds) ==
    IF k > Len(d) THEN total_seconds
    ELSE IF d[k] \in Digits
         THEN ScanDuration(d, k + 1, Append(num, d[k]), total_seconds)
    ELSE IF num = <<>>
         THEN ScanDuration(d, k + 1, num, total_seconds)
    ELSE ScanDuration(d, k + 1, <<>>,
                      total_seconds + UnitSeconds(d[k], DigitsValue(num)))

parse_iso_duration(duration) ==
    IF ~(Len(duration) >= 2 /\ duration[1] = "P" /\ duration[2] = "T")
    THEN 0
    ELSE ScanDuration(SubSeq(duration, 3, Len(duration)), 1, <<>>, 0)

\* str.strip() for blanks.
RECURSIVE Strip(_)
Strip(s) ==
    IF s = <<>> THEN s
    ELSE IF s[1] = " " THEN Strip(Tail(s))
    ELSE IF s[Len(s)] = " " THEN Strip(SubSeq(s, 1, Len(s) - 1))
    ELSE s

\* cmd.split("/"): the fields between the slashes, empty ones included.
RECURSIVE SplitSlash(_, _, _)
SplitSlash(s, k, cur) ==
    IF k > Len(s) THEN <<cur>>
    ELSE IF s[k] = "/" THEN <<cur>> \o SplitSlash(s, k + 1, <<>>)
    ELSE SplitSlash(s, k + 1, Append(cur, s[k]))

\* parts = [p.strip() for p in cmd.split("/") if p.strip()]
CmdParts(cmd) ==
    LET fields == SplitSlash(cmd, 1, <<>>)
        stripped == [j \in 1..Len(fields) |-> Strip(fields[j])]
    IN SelectSeq(stripped, LAMBDA p : p # <<>>)

\* int(text) on a stripped field: an optional sign and decimal digits give
\* Some(value); anything else raises ValueError, given as None.
PyInt(text) ==
    LET signed == text # <<>> /\ text[1] \in {"+", "-"}
        body == IF signed THEN Tail(text) ELSE text
    IN IF body = <<>> \/ \E j \in 1..Len(body) : body[j] \notin Digits
       THEN None
       ELSE IF signed /\ text[1] = "-"
            THEN Some(0 - DigitsValue(body))
            ELSE Some(DigitsValue(body))

\* try: x = int(parts[k]) except ValueError: pass   (when len(parts) >= k)
FieldOr(parts, k, x) ==
    IF Len(parts) >= k /\ ~IsNone(PyInt(parts[k])) THEN PyInt(parts[k]) ELSE x

\* x or default, for an Optional[int]
OrDefault(x, default) ==
    IF IsNone(x) \/ x[1] = 0 THEN default ELSE x[1]


Min(a, b) == IF a <= b THEN a ELSE b

\* --------------------------------------------------------------- inputs
CmdMany == <<"k", "/", "2", "0", "1">>                       \* "k/201"
CmdNegative == <<"k", " ", "/", " ", "-", "5">>              \* "k / -5"
CmdZero == <<"k", "/", "0">>                                 \* "k/0"
CmdFull == <<"k", " ", "/", " ", "2", " ", "/", " ", "7", " ", "/", " ", "6", "0">>
                                                             \* "k / 2 / 7 / 60"
CmdWord == <<"k", "/", "x">>                                 \* "k/x"
CmdGap == <<"k", "/", "/", "3">>                             \* "k//3"
CmdInputs == {CmdMany, CmdNegative, CmdZero, CmdFull, CmdWord, CmdGap}

\* the /api/search_shorts requests: max_results, shorts_only,
\* max_duration_sec, auto_sheet
Request(target, so, dur, sheet) ==
    [max_results |-> target, shorts_only |-> so, max_duration_sec |-> dur,
     auto_sheet |-> sheet]
SearchRequests ==
    {Request(1, TRUE, 60, TRUE), Request(1, FALSE, 60, FALSE),
     Request(2, TRUE, 180, FALSE), Request(3, TRUE, 60, TRUE),
     Request(51, FALSE, 60, TRUE), Request(200, TRUE, 60, FALSE)}
\* n values a /api/quick request is given (None or within ge=1, le=200)
QuickN == {None, Some(1)}
\* payload.n values of a webhook body (any integer or None)
WebhookN == {None, Some(0), Some(3), Some(0 - 1), Some(201)}

\* The duration strings of the upstream catalog; <<>> stands for a record
\* without a duration key.
DurTokens ==
    << <<"P", "T", "5", "9", "S">>,
       <<"P", "T", "1", "M">>,
       <<"P", "T", "1", "M", "1", "S">>,
       <<"P", "T", "3", "M">>,
       <<"P", "T", "3", "M", "1", "S">>,
       <<"P", "1", "D">>,
       <<>>,
       <<"P", "T", "1", "H", "2", "M", "3", "S">> >>

\* The upstream's record for video id in catalog k: whether videos().list
\* returns it at all, and what it holds.
Present(id, k) == (id + k) % 5 # 0
DurationOf(id, k) == DurTokens[((id + k) % Len(DurTokens)) + 1]
ViewsOf(id, k) == ((id + 2 * k) % 3) * 100
LikesOf(id, k) == (id + k) % 2

\* ---------------------------------------------------------------- state
VARIABLES
    pc,               \* where the handler is
    max_results, shorts_only, max_duration_sec, auto_sheet,
    video_ids,        \* the list of the same name
    next_page_token,  \* 0 is None, otherwise a token
    collected,        \* history: the ids as gathered, before line 284
    search_calls,     \* history: number of search().list calls issued
    last_request,     \* history: maxResults of the last search call
    last_page,        \* history: number of items of the last search response
    over_returned,    \* history: a page held more items than requested
    fresh,            \* upstream: the lowest id not yet served
    i,                \* the batch offset of the second loop
    catalog,          \* upstream: which catalog answers videos().list
    detail_calls,     \* history: the batch_ids of every videos().list call
    videos,           \* the list of rows
    sheet_calls,      \* history: the spreadsheet calls issued, in order
    failure,          \* history: which upstream call raised, or "none"
    result            \* None, or Some(the returned value)

vars == <<pc, max_results, shorts_only, max_duration_sec, auto_sheet,
          video_ids, next_page_token, collected, search_calls, last_request,
          last_page, over_returned, fresh, i, catalog, detail_calls, videos,
          sheet_calls, failure, result>>

reqVars == <<max_results, shorts_only, max_duration_sec, auto_sheet>>
searchVars == <<video_ids, next_page_token, collected, search_calls,
                last_request, last_page, over_returned, fresh>>
detailVars == <<i, catalog, detail_calls, videos>>

Init ==
    /\ pc = "idle"
    /\ max_results = 0
    /\ shorts_only = TRUE
    /\ max_duration_sec = 0
    /\ auto_sheet = TRUE
    /\ video_ids = <<>>
    /\ next_page_token = 0
    /\ collected = <<>>
    /\ search_calls = 0
    /\ last_request = 0
    /\ last_page = 0
    /\ over_returned = FALSE
    /\ fresh = 1
    /\ i = 0
    /\ catalog = 0
    /\ detail_calls = <<>>
    /\ videos = <<>>
    /\ sheet_calls = <<>>
    /\ failure = "none"
    /\ result = None

\* ------------------------------------------------------------- pipeline
\* Mutant of Dedup: line 284 left out.
DedupNone(ids) == ids

\* list(dict.fromkeys(ids)): each id once, at its first position (the
\* occurrences that have no equal id before them, in order).
Dedup(ids) ==
    LET at == [k \in 1..Len(ids) |-> <<k, ids[k]>>]
        firsts == SelectSeq(at, LAMBDA p :
                      \A j \in 1..(p[1] - 1) : ids[j] # p[2])
    IN [m \in 1..Len(firsts) |-> firsts[m][2]]

\* "maxResults": min(50, max_results - len(video_ids))
PageSize(target, have) == Min(PageCap, target - have)

\* while len(video_ids) < max_results
LoopGuard(have, target) == have < target

\* the value returned at lines 287-293 and 380-387
Response(rows, url) == [count |-> Len(rows), videos |-> rows, sheet_url |-> url]

\* lines 284-293: leave the first loop with the ids gathered so far
AfterSearch(ids) ==
    LET unique == Dedup(ids)
    IN /\ collected' = ids
       /\ video_ids' = unique
       /\ IF unique = <<>>
          THEN /\ pc' = "done"
               /\ result' = Some(Response(<<>>, "None"))
          ELSE /\ pc' = "fetching_item_details"
               /\ result' = result

\* search_and_export(...) up to its first upstream call
Start(target, so, dur, sheet) ==
    /\ max_results' = target
    /\ shorts_only' = so
    /\ max_duration_sec' = dur
    /\ auto_sheet' = sheet
    /\ IF LoopGuard(0, target)
       THEN /\ pc' = "collecting_ids"
            /\ UNCHANGED <<video_ids, collected, result>>
       ELSE AfterSearch(<<>>)
    /\ UNCHANGED <<next_page_token, search_calls, last_request, last_page,
                   over_returned, fresh, detailVars, sheet_calls, failure>>

\* GET /api/search_shorts
SearchShorts ==
    /\ pc = "idle"
    /\ \E r \in SearchRequests :
          /\ r.max_results \in MinResults..MaxResults
          /\ r.max_duration_sec \in MinDurationSec..MaxDurationSec
          /\ Start(r.max_results, r.shorts_only, r.max_duration_sec,
                   r.auto_sheet)

\* the n and duration that quick hands on, lines 410-433
QuickTarget(cmd, n) ==
    OrDefault(IF cmd # <<>> THEN FieldOr(CmdParts(cmd), 2, n) ELSE n, DefaultN)
QuickDuration(cmd, duration) ==
    OrDefault(IF cmd # <<>> THEN FieldOr(CmdParts(cmd), 4, duration) ELSE duration,
              DefaultDuration)

\* GET /api/quick
Quick ==
    /\ pc = "idle"
    /\ \E cmd \in CmdInputs \cup {<<>>}, n \in QuickN :
          /\ IF IsNone(n) THEN TRUE ELSE n[1] \in MinResults..MaxResults
          /\ Start(QuickTarget(cmd, n), TRUE, QuickDuration(cmd, None), TRUE)

\* the n and dur that quick_webhook hands on, lines 472-495
WebhookTarget(cmd, n) ==
    OrDefault(IF cmd # <<>> THEN FieldOr(CmdParts(cmd), 2, n) ELSE n, DefaultN)
WebhookDuration(cmd, dur) ==
    OrDefault(IF cmd # <<>> THEN FieldOr(CmdParts(cmd), 4, dur) ELSE dur,
              DefaultDuration)

\* POST /api/quick_webhook with an accepted token
QuickWebhook ==
    /\ pc = "idle"
    /\ \E cmd \in {CmdMany, CmdFull, <<>>}, n \in WebhookN :
          Start(WebhookTarget(cmd, n), TRUE, WebhookDuration(cmd, None), TRUE)

\* POST /api/quick_webhook with a wrong token: HTTP 401, line 462
QuickWebhookRejected ==
    /\ pc = "idle"
    /\ pc' = "rejected"
    /\ UNCHANGED <<reqVars, searchVars, detailVars, sheet_calls, failure, result>>

\* item counts the upstream may answer a request for req items with
PageLens(req) == {0, 1, req, req + MaxExtra}

\* One iteration of the first loop whose search().list call succeeds,
\* lines 264-282, and the code after the loop when it is left.
SearchPage ==
    /\ pc = "collecting_ids"
    /\ search_calls < MaxPages
    /\ \E n \in PageLens(PageSize(max_results, Len(video_ids))),
          ov \in {0, MaxOverlap}, token \in BOOLEAN :
          /\ ov < fresh
          /\ n = 0 => ov = 0
          /\ LET req == PageSize(max_results, Len(video_ids))
                 ids == [j \in 1..n |-> fresh - ov + j - 1]
                 all == video_ids \o ids
             IN /\ last_request' = req
                /\ last_page' = n
                /\ over_returned' = (over_returned \/ n > req)
                /\ search_calls' = search_calls + 1
                /\ fresh' = IF fresh - ov + n > fresh THEN fresh - ov + n ELSE fresh
                /\ next_page_token' = IF token THEN search_calls + 1 ELSE 0
                /\ IF token /\ LoopGuard(Len(all), max_results)
                   THEN /\ video_ids' = all
                        /\ collected' = all
                        /\ UNCHANGED <<pc, result>>
                   ELSE AfterSearch(all)
    /\ UNCHANGED <<reqVars, detailVars, sheet_calls, failure>>

\* A search().list call raises: the exception leaves the handler.
SearchPageFails ==
    /\ pc = "collecting_ids"
    /\ search_calls < MaxPages
    /\ last_request' = PageSize(max_results, Len(video_ids))
    /\ search_calls' = search_calls + 1
    /\ pc' = "failed"
    /\ failure' = "search"
    /\ UNCHANGED <<reqVars, video_ids, next_page_token, collected, last_page,
                   over_returned, fresh, detailVars, sheet_calls, result>>


\* viral_score(row), lines 102-110, as the exact quotient num / den of
\* views / subs * 0.6 + likes / subs * 400 (num counts tenths).
viral_score(row) ==
    LET views == row.views
        likes == row.likes
        subs == IF row.subscribers <= 0 THEN 1 ELSE row.subscribers
    IN [num |-> views * 6 + likes * 4000, den |-> 10 * subs]

\* the items of the response to videos().list(id=batch_ids) in catalog k
DetailItems(batch_ids, k) ==
    LET there == SelectSeq(batch_ids, LAMBDA id : Present(id, k))
    IN [j \in 1..Len(there) |->
          [id |-> there[j],
           duration |-> DurationOf(there[j], k),
           viewCount |-> ViewsOf(there[j], k),
           likeCount |-> LikesOf(there[j], k)]]

\* content.get("duration", "PT0S")
DurationText(item) ==
    IF item.duration = <<>> THEN <<"P", "T", "0", "S">> ELSE item.duration

\* Mutant of Skipped: >= for >.
SkippedAtLimit(so, duration_sec, limit) == so /\ duration_sec >= limit

\* line 312: the item is skipped
Skipped(so, duration_sec, limit) == so /\ duration_sec > limit

\* lines 327-342: the row of an item (pos: history, the place it was
\* appended at)
Row(item, pos) ==
    LET base == [video_id |-> item.id,
                 duration_sec |-> parse_iso_duration(DurationText(item)),
                 views |-> item.viewCount,
                 likes |-> item.likeCount,
                 subscribers |-> 0]
    IN [video_id |-> base.video_id,
        duration_sec |-> base.duration_sec,
        views |-> base.views,
        likes |-> base.likes,
        subscribers |-> base.subscribers,
        viral_score |-> viral_score(base),
        pos |-> pos]

\* lines 304-343: the rows one response appends to a list of have rows
BatchRows(items, so, limit, have) ==
    LET kept == SelectSeq(items, LAMBDA it :
                    ~Skipped(so, parse_iso_duration(DurationText(it)), limit))
    IN [j \in 1..Len(kept) |-> Row(kept[j], have + j)]

\* the largest views of a non-empty list of rows
TopViews(rows) ==
    CHOOSE v \in {rows[j].views : j \in 1..Len(rows)} :
        \A j \in 1..Len(rows) : rows[j].views <= v

\* Mutant of SortByViews: sorted ascending and then reversed, which turns
\* the rows of equal views around.
RECURSIVE SortByViewsReversed(_)
SortByViewsReversed(rows) ==
    IF rows = <<>> THEN <<>>
    ELSE LET top == TopViews(rows)
             first == SelectSeq(rows, LAMBDA r : r.views = top)
         IN [j \in 1..Len(first) |-> first[Len(first) + 1 - j]]
            \o SortByViewsReversed(SelectSeq(rows, LAMBDA r : r.views # top))

\* videos.sort(key=lambda x: x.get("views", 0), reverse=True): a stable
\* sort, largest views first: the rows of the largest key in their order,
\* then the rest sorted the same way.
RECURSIVE SortByViews(_)
SortByViews(rows) ==
    IF rows = <<>> THEN <<>>
    ELSE LET top == TopViews(rows)
         IN SelectSeq(rows, LAMBDA r : r.views = top)
            \o SortByViews(SelectSeq(rows, LAMBDA r : r.views # top))

\* Mutant of BatchIds: the slice runs one id too far.
BatchIdsInclusive(ids, at) == SubSeq(ids, at + 1, Min(at + BatchCap + 1, Len(ids)))

\* batch_ids = video_ids[i:i+50]
BatchIds(ids, at) == SubSeq(ids, at + 1, Min(at + BatchCap, Len(ids)))

\* Mutant of Exports: the rows are not looked at.
ExportsAlways(sheet, rows) == sheet

\* if auto_sheet and videos
Exports(sheet, rows) == sheet /\ rows # <<>>

\* One iteration of the second loop whose videos().list call succeeds,
\* lines 297-343; after the last one the sort and lines 349-387 up to the
\* first spreadsheet call or the return.
FetchBatch ==
    /\ pc = "fetching_item_details"
    /\ \E k \in 0..MaxShift :
          /\ i > 0 => k = catalog
          /\ catalog' = k
          /\ LET batch_ids == BatchIds(video_ids, i)
                 rows == videos \o BatchRows(DetailItems(batch_ids, k),
                                             shorts_only, max_duration_sec,
                                             Len(videos))
                 sorted == SortByViews(rows)
             IN /\ detail_calls' = Append(detail_calls, batch_ids)
                /\ i' = i + BatchCap
                /\ IF i + BatchCap < Len(video_ids)
                   THEN /\ videos' = rows
                        /\ UNCHANGED <<pc, result>>
                   ELSE /\ videos' = sorted
                        /\ IF Exports(auto_sheet, sorted)
                           THEN /\ pc' = "sheet_get"
                                /\ result' = result
                           ELSE /\ pc' = "done"
                                /\ result' = Some(Response(sorted, "None"))
    /\ UNCHANGED <<reqVars, searchVars, sheet_calls, failure>>

\* Mutant of FetchBatchFails: the exception is caught and the batch is
\* asked for again.
FetchBatchFailsRetried ==
    /\ pc = "fetching_item_details"
    /\ Len(detail_calls) < MaxPages + 2
    /\ detail_calls' = Append(detail_calls, SubSeq(video_ids, i + 1, Len(video_ids)))
    /\ failure' = "detail"
    /\ UNCHANGED <<pc, reqVars, searchVars, i, catalog, videos, sheet_calls, result>>

\* A videos().list call raises.
FetchBatchFails ==
    /\ pc = "fetching_item_details"
    /\ detail_calls' = Append(detail_calls, BatchIds(video_ids, i))
    /\ pc' = "failed"
    /\ failure' = "detail"
    /\ UNCHANGED <<reqVars, searchVars, i, catalog, videos, sheet_calls, result>>

\* ensure_sheet_and_get_range_title: spreadsheets().get, lines 137-141;
\* the title is there or not.
SheetsGet ==
    /\ pc = "sheet_get"
    /\ sheet_calls' = Append(sheet_calls, "get")
    /\ \E there \in BOOLEAN : pc' = IF there THEN "sheet_clear" ELSE "sheet_add"
    /\ UNCHANGED <<reqVars, searchVars, detailVars, failure, result>>

\* spreadsheets().batchUpdate(addSheet), lines 153-156
SheetsAdd ==
    /\ pc = "sheet_add"
    /\ sheet_calls' = Append(sheet_calls, "batchUpdate")
    /\ pc' = "sheet_clear"
    /\ UNCHANGED <<reqVars, searchVars, detailVars, failure, result>>

\* values().clear, lines 187-190
SheetsClear ==
    /\ pc = "sheet_clear"
    /\ sheet_calls' = Append(sheet_calls, "clear")
    /\ pc' = "sheet_update"
    /\ UNCHANGED <<reqVars, searchVars, detailVars, failure, result>>

\* values().update, lines 192-197, and the return of lines 380-387
SheetsUpdate ==
    /\ pc = "sheet_update"
    /\ sheet_calls' = Append(sheet_calls, "update")
    /\ pc' = "done"
    /\ result' = Some(Response(videos, "url"))
    /\ UNCHANGED <<reqVars, searchVars, detailVars, failure>>

SheetStep(at) ==
    CASE at = "sheet_get" -> "get"
      [] at = "sheet_add" -> "batchUpdate"
      [] at = "sheet_clear" -> "clear"
      [] at = "sheet_update" -> "update"

\* A spreadsheet call raises.
SheetsFails ==
    /\ pc \in {"sheet_get", "sheet_add", "sheet_clear", "sheet_update"}
    /\ sheet_calls' = Append(sheet_calls, SheetStep(pc))
    /\ pc' = "failed"
    /\ failure' = "sheet"
    /\ UNCHANGED <<reqVars, searchVars, detailVars, result>>

Next ==
    \/ SearchShorts
    \/ Quick
    \/ QuickWebhook
    \/ QuickWebhookRejected
    \/ SearchPage
    \/ SearchPageFails
    \/ FetchBatch
    \/ FetchBatchFails
    \/ SheetsGet
    \/ SheetsAdd
    \/ SheetsClear
    \/ SheetsUpdate
    \/ SheetsFails

Spec == Init /\ [][Next]_vars


\* ----------------------------------------------------------- properties
Range(seq) == {seq[j] : j \in 1..Len(seq)}

\* every batch of the second loop has been answered
DetailDone == video_ids # <<>> /\ i >= Len(video_ids)

\* line 284 has been executed
AfterDedup ==
    \/ pc \in {"fetching_item_details", "sheet_get", "sheet_add",
               "sheet_clear", "sheet_update", "done"}
    \/ failure \in {"detail", "sheet"}

\* the place of the first occurrence of x in seq
FirstAt(seq, x) ==
    CHOOSE j \in 1..Len(seq) :
        seq[j] = x /\ \A h \in 1..(j - 1) : seq[h] # x

\* C1: the search loop stops as soon as the upstream returns an empty page,
\* with or without a continuation token: after an empty page no further
\* page is asked for.
C1_StopsOnEmptyPage ==
    (search_calls > 0 /\ last_page = 0 /\ failure = "none")
        => pc # "collecting_ids"

\* C2: a row with subscribers = 0 has a virality score of exactly 0.0,
\* whatever its views and likes.
C2_ZeroSubscribersScoreZero ==
    \A j \in 1..Len(videos) :
        videos[j].subscribers = 0 => videos[j].viral_score.num = 0

\* C3: every detail call carries 1..50 ids, the c-th call carries the c-th
\* contiguous chunk of the de-duplicated ids in order, no id is in two
\* calls, and once all batches are answered there were exactly ceil(L/50)
\* calls whose inputs together are the de-duplicated ids.
C3_Batching ==
    /\ \A c \in 1..Len(detail_calls) :
          /\ Len(detail_calls[c]) \in 1..50
          /\ \A j \in 1..Len(detail_calls[c]) :
                /\ (c - 1) * 50 + j <= Len(video_ids)
                /\ detail_calls[c][j] = video_ids[(c - 1) * 50 + j]
    /\ \A c \in 1..Len(detail_calls) : \A d \in (c + 1)..Len(detail_calls) :
          Range(detail_calls[c]) \cap Range(detail_calls[d]) = {}
    /\ DetailDone =>
          /\ Len(detail_calls) = (Len(video_ids) + 49) \div 50
          /\ UNION {Range(detail_calls[c]) : c \in 1..Len(detail_calls)}
                = Range(video_ids)

C3_Witness ==
    /\ DetailDone
    /\ Len(detail_calls) >= 3
    /\ Len(video_ids) % 50 # 0

\* video_ids and collected are left as they are
IdsKept == video_ids' = video_ids /\ collected' = collected

\* C4: no detail call is issued before the de-duplication; when it has run
\* and no detail call has been issued yet, video_ids holds every collected
\* id exactly once, in the order of the first occurrences; from then on
\* video_ids is left as it is, and no id is handed to two detail calls or
\* twice to one.
C4_DedupBeforeFetch ==
    /\ [](~AfterDedup => detail_calls = <<>>)
    /\ []((AfterDedup /\ detail_calls = <<>>) =>
            /\ Cardinality(Range(video_ids)) = Len(video_ids)
            /\ Range(video_ids) = Range(collected)
            /\ LET first == [m \in 1..Len(video_ids) |->
                                 FirstAt(collected, video_ids[m])]
               IN \A m \in 1..(Len(video_ids) - 1) : first[m] < first[m + 1])
    /\ [][AfterDedup => IdsKept]_vars
    /\ [](\A c \in 1..Len(detail_calls) :
            /\ Cardinality(Range(detail_calls[c])) = Len(detail_calls[c])
            /\ Range(detail_calls[c]) \subseteq Range(video_ids)
            /\ \A d \in (c + 1)..Len(detail_calls) :
                  Range(detail_calls[c]) \cap Range(detail_calls[d]) = {})

C4_Witness ==
    /\ failure = "none"
    /\ Len(detail_calls) >= 1
    /\ Len(collected) > Len(video_ids)

\* C5: every page request asks for 1..50 items, and as long as no page held
\* more items than requested the collected count is at most the target.
C5_CollectedWithinTarget ==
    /\ search_calls > 0 => last_request \in 1..50
    /\ (pc \notin {"idle", "rejected"} /\ ~over_returned)
          => Len(collected) <= max_results

\* C6: the rows are appended in their places 1, 2, ...; once all batches are
\* answered the list is the same rows ordered by views, largest first, rows
\* of equal views in the order they were appended; that list is returned.
C6_StableRanking ==
    /\ ~DetailDone => \A j \in 1..Len(videos) : videos[j].pos = j
    /\ DetailDone =>
          /\ {videos[j].pos : j \in 1..Len(videos)} = 1..Len(videos)
          /\ \A j \in 1..(Len(videos) - 1) :
                \/ videos[j].views > videos[j + 1].views
                \/ /\ videos[j].views = videos[j + 1].views
                   /\ videos[j].pos < videos[j + 1].pos
    /\ (pc = "done" /\ video_ids # <<>>) => result[1].videos = videos

C6_Witness ==
    /\ pc = "done"
    /\ Len(detail_calls) >= 2
    /\ \E j \in 1..(Len(videos) - 1) :
          /\ videos[j].views = videos[j + 1].views
          /\ videos[j].pos <= 50
          /\ videos[j + 1].pos > 50
    /\ \E j \in 1..(Len(videos) - 1) : videos[j].pos > videos[j + 1].pos

\* the seconds of the duration the upstream holds for id
CatalogSeconds(id) ==
    parse_iso_duration(IF DurationOf(id, catalog) = <<>>
                       THEN <<"P", "T", "0", "S">>
                       ELSE DurationOf(id, catalog))

\* C7: once all batches are answered, an id is among the rows exactly if
\* the upstream returned its record and, with shorts_only set, its parsed
\* duration is at most max_duration_sec.
C7_DurationFilter ==
    DetailDone =>
        {videos[j].video_id : j \in 1..Len(videos)}
            = {id \in Range(video_ids) :
                  /\ Present(id, catalog)
                  /\ shorts_only => CatalogSeconds(id) <= max_duration_sec}

C7_Witness ==
    /\ pc = "done"
    /\ shorts_only
    /\ \E j \in 1..Len(videos) : videos[j].duration_sec = max_duration_sec
    /\ \E id \in Range(video_ids) :
          /\ Present(id, catalog)
          /\ CatalogSeconds(id) = max_duration_sec + 1
          /\ \A j \in 1..Len(videos) : videos[j].video_id # id

\* C8: with no id found no detail call and no spreadsheet call is ever
\* issued and the run returns count 0 with no rows; a spreadsheet call is
\* issued only for a non-empty list of rows, and an empty list after the
\* filter is returned as count 0 without a sheet.
C8_EmptyOutcome ==
    /\ (pc \notin {"idle", "collecting_ids"} /\ video_ids = <<>>)
          => /\ detail_calls = <<>>
             /\ sheet_calls = <<>>
             /\ pc = "done" =>
                   result = Some([count |-> 0, videos |-> <<>>,
                                  sheet_url |-> "None"])
    /\ sheet_calls # <<>> => videos # <<>>
    /\ (DetailDone /\ videos = <<>>)
          => /\ pc = "done"
             /\ result = Some([count |-> 0, videos |-> <<>>,
                               sheet_url |-> "None"])

C8_Witness ==
    /\ pc = "done"
    /\ auto_sheet
    /\ detail_calls # <<>>
    /\ videos = <<>>
    /\ sheet_calls = <<>>

\* C9: the target count that reaches the pagination loop is within 1..200,
\* whichever endpoint was called.
C9_TargetWithinCap ==
    pc \notin {"idle", "rejected"} => max_results \in 1..200

\* a step that issues no upstream call and returns nothing
NoCallAndNoResult ==
    /\ search_calls' = search_calls
    /\ detail_calls' = detail_calls
    /\ sheet_calls' = sheet_calls
    /\ result' = None

\* C10: once a search call or a detail call has raised, the run has failed
\* and has returned nothing, and no upstream call is issued any more.
C10_FailureIsFatal ==
    /\ [](failure \in {"search", "detail"} => (pc = "failed" /\ result = None))
    /\ [][(failure \in {"search", "detail"}) => NoCallAndNoResult]_vars

C10_Witness ==
    /\ failure = "detail"
    /\ auto_sheet
    /\ Len(detail_calls) >= 2
    /\ Len(video_ids) > Len(detail_calls) * 50

====
